---- MODULE Spec2Model ----
(***************************************************************************)
(* Model of the disbursement converter: the page parser of utils/parse.ts  *)
(* (normalize, looksLikeHeader, splitColumns, parseTotals, parseRow,       *)
(* parseFromLines) and the workbook assembler (safeSheetName,              *)
(* uniqueSheetName, createWorkbookFromPages).                              *)
(*                                                                         *)
(* A JavaScript string is a sequence of characters, a character a          *)
(* one-character TLA+ string (NBSP stands for U+00A0).  A JavaScript       *)
(* number is an integer count of hundredths (12 is 1200, 26460.00 is       *)
(* 2646000): every number the program handles here is a count or a         *)
(* two-decimal money amount.  A JavaScript value is a record tagged with   *)
(* its typeof.                                                             *)
(***************************************************************************)
EXTENDS Integers, Sequences, FiniteSets, TLC

VARIABLES
    lines,      \* parseFromLines: the raw lines of the page being parsed
    pageIndex,  \* parseFromLines: the caller's 1-based page number
    clean,      \* parseFromLines: normalized non-blank lines
    headerIdx,  \* parseFromLines: 0-based index of the header line in clean
    i,          \* parseFromLines: 0-based loop index of the scan
    rows,       \* parseFromLines: rows pushed so far
    totals,     \* parseFromLines: totals recorded so far (Undefined if none)
    pc,         \* parseFromLines: "idle", "scan", "return", "done"
    result,     \* parseFromLines: the ParsedPage returned
    fields,     \* row round trip: the field set a line is synthesized from
    rowLine,    \* row round trip: the synthesized line
    parsed,     \* row round trip: what parseRow returned for rowLine
    rowPc,      \* row round trip: "fields", "line", "parsed"
    pages,      \* createWorkbookFromPages: the pages consumed so far, in order
    used,       \* createWorkbookFromPages: the Set of sheet names in use
    sheets      \* createWorkbookFromPages: the worksheets added so far

vars == <<lines, pageIndex, clean, headerIdx, i, rows, totals, pc, result,
          fields, rowLine, parsed, rowPc, pages, used, sheets>>

parseVars == <<lines, pageIndex, clean, headerIdx, i, rows, totals, pc, result>>
rowVars == <<fields, rowLine, parsed, rowPc>>
bookVars == <<pages, used, sheets>>

-----------------------------------------------------------------------------
(* Characters and the regular-expression character classes                 *)

TAB == "\t"
NBSP == "NBSP"

DigitSeq == <<"0", "1", "2", "3", "4", "5", "6", "7", "8", "9">>
UpperSeq == <<"A", "B", "C", "D", "E", "F", "G", "H", "I", "J", "K", "L", "M",
              "N", "O", "P", "Q", "R", "S", "T", "U", "V", "W", "X", "Y", "Z">>
LowerSeq == <<"a", "b", "c", "d", "e", "f", "g", "h", "i", "j", "k", "l", "m",
              "n", "o", "p", "q", "r", "s", "t", "u", "v", "w", "x", "y", "z">>

Range(f) == {f[k] : k \in DOMAIN f}

\* \d
Digits == Range(DigitSeq)
IsDigit(c) == c \in Digits
\* [A-Z]
Uppers == Range(UpperSeq)
IsUpper(c) == c \in Uppers
Lowers == Range(LowerSeq)
IsLower(c) == c \in Lowers
\* \s, and the characters String.prototype.trim strips
Spaces == {" ", TAB, NBSP}
IsSpace(c) == c \in Spaces
\* \w, the class \b is defined by
Words == Digits \cup Uppers \cup Lowers \cup {"_"}
IsWord(c) == c \in Words

DigitValues == [c \in Digits |-> (CHOOSE k \in 1..10 : DigitSeq[k] = c) - 1]
DigitVal(c) == DigitValues[c]

\* String.prototype.toUpperCase, one character
UpperOf == [c \in Lowers |-> UpperSeq[CHOOSE k \in 1..26 : LowerSeq[k] = c]]
UpperChar(c) == IF c \in Lowers THEN UpperOf[c] ELSE c

toUpperCase(s) == [k \in 1..Len(s) |-> UpperChar(s[k])]

\* String.prototype.includes
includes(s, t) ==
    \E k \in 0..(Len(s) - Len(t)) : \A j \in 1..Len(t) : s[k + j] = t[j]

\* s.slice(0, n)
slice0(s, n) == SubSeq(s, 1, IF n < Len(s) THEN n ELSE Len(s))

\* String.prototype.trim
RECURSIVE trimStart(_)
trimStart(s) ==
    IF s # <<>> /\ IsSpace(Head(s)) THEN trimStart(Tail(s)) ELSE s

RECURSIVE trimEnd(_)
trimEnd(s) ==
    IF s # <<>> /\ IsSpace(s[Len(s)]) THEN trimEnd(SubSeq(s, 1, Len(s) - 1)) ELSE s

trim(s) == trimEnd(trimStart(s))

\* the length of the longest run of characters of the class C that starts at
\* position p of s (0 if there is none): what a greedy [C]* consumes
RECURSIVE RunLen(_, _, _)
RunLen(C, s, p) ==
    IF p <= Len(s) /\ s[p] \in C THEN 1 + RunLen(C, s, p + 1) ELSE 0

\* the decimal digits of a natural number, and back
RECURSIVE digitsOf(_)
digitsOf(n) ==
    IF n < 10 THEN <<DigitSeq[n + 1]>>
    ELSE digitsOf(n \div 10) \o <<DigitSeq[(n % 10) + 1]>>

RECURSIVE valueOf(_)
valueOf(ds) ==
    IF ds = <<>> THEN 0
    ELSE 10 * valueOf(SubSeq(ds, 1, Len(ds) - 1)) + DigitVal(ds[Len(ds)])

-----------------------------------------------------------------------------
(* JavaScript values                                                       *)

Undefined == [t |-> "undefined", s |-> <<>>, v |-> 0]
Null == [t |-> "null", s |-> <<>>, v |-> 0]
Str(s) == [t |-> "string", s |-> s, v |-> 0]
\* a finite number, in hundredths
Num(v) == [t |-> "number", s |-> <<>>, v |-> v]
\* NaN, Infinity, -Infinity: typeof "number", not finite
NotFinite == [t |-> "notfinite", s |-> <<>>, v |-> 0]

\* v == null
IsNullish(x) == x.t \in {"undefined", "null"}

\* Number(text) for a text already stripped of "," "$" and whitespace: an
\* optional sign, digits with an optional fraction (one of the two digit runs may
\* be empty); anything else is NaN.  Fraction digits past the second are dropped
\* (the model's numbers are hundredths); exponent, hexadecimal and Infinity
\* literals are not modelled and do not occur in the inputs.
fractionDigit(s, p, present) == IF present THEN DigitVal(s[p]) ELSE 0

\* ip integer digits, then "." and fp fraction digits
withFraction(s, ip, fp) ==
    IF ip + 1 + fp = Len(s) /\ ip + fp >= 1
    THEN Num(100 * valueOf(SubSeq(s, 1, ip))
               + 10 * fractionDigit(s, ip + 2, fp >= 1)
               + fractionDigit(s, ip + 3, fp >= 2))
    ELSE NotFinite

\* ip integer digits read
afterInteger(s, ip) ==
    IF ip < Len(s) /\ s[ip + 1] = "."
    THEN withFraction(s, ip, RunLen(Digits, s, ip + 2))
    ELSE IF ip = Len(s) /\ ip >= 1 THEN Num(100 * valueOf(s)) ELSE NotFinite

UnsignedNumber(s) == afterInteger(s, RunLen(Digits, s, 1))

signed(u, negative) ==
    IF negative /\ u.t = "number" THEN Num(0 - u.v) ELSE u

Number(s) ==
    IF s = <<>> THEN Num(0)
    ELSE signed(UnsignedNumber(IF s[1] \in {"-", "+"} THEN Tail(s) ELSE s),
                s[1] = "-")

\* s.replace(/[,$\s$]/g, "")
stripMoney(s) == SelectSeq(s, LAMBDA c : ~(c \in {",", "$"} \/ IsSpace(c)))

\* String(v) for the values the parser passes
String(x) ==
    CASE x.t = "string" -> x.s
      [] x.t = "undefined" -> <<"u", "n", "d", "e", "f", "i", "n", "e", "d">>
      [] x.t = "null" -> <<"n", "u", "l", "l">>
      [] OTHER -> <<>>

-----------------------------------------------------------------------------
(* utils/parse.ts                                                          *)

\* s.replace(/\u00A0/g, " ")
replaceNbsp(s) == [k \in 1..Len(s) |-> IF s[k] = NBSP THEN " " ELSE s[k]]

BlanksAndTabs == {" ", TAB}

\* s.replace(/[ \t]+/g, " ")
RECURSIVE collapse(_)
collapse(s) ==
    IF s = <<>> THEN <<>>
    ELSE IF s[1] \in BlanksAndTabs
         THEN <<" ">> \o collapse(SubSeq(s, RunLen(BlanksAndTabs, s, 1) + 1, Len(s)))
         ELSE <<s[1]>> \o collapse(Tail(s))

\* a variant that keeps the tabs and the runs of blanks
normalizeKeepRuns(s) == trim(replaceNbsp(s))

normalize(s) == trim(collapse(replaceNbsp(s)))

tokens ==
    << <<"S", "T", "U", "D", "E", "N", "T">>, <<"S", "I", "N">>, <<"G", "O", "V">>, <<"C", "E", "R", "T">>, <<"N", "A", "M", "E">>, <<"E", "O", "S">>, <<"D", "A", "T", "E">>, <<"A", "M", "O", "U", "N", "T">> >>

HeaderThreshold == 3

\* the keywords the upper-cased line L includes
hitsIn(L) == Cardinality({k \in DOMAIN tokens : includes(L, tokens[k])})

keywordHits(line) == hitsIn(toUpperCase(line))

looksLikeHeader(line) == keywordHits(line) >= HeaderThreshold

canonicalColumns ==
    << <<"S", "T", "U", "D", "E", "N", "T", " ", "N", "O">>, <<"S", "I", "N">>, <<"G", "O", "V">>, <<"C", "E", "R", "T", " ", "#">>, <<"A", "B", "B", "R", "E", "V", "I", "A", "T", "E", "D", " ", "N", "A", "M", "E">>,
       <<"E", "O", "S", " ", "D", "A", "T", "E">>, <<"A", "M", "O", "U", "N", "T">> >>

\* header.replace(/\|/g, "  ")
RECURSIVE replacePipes(_)
replacePipes(s) ==
    IF s = <<>> THEN <<>>
    ELSE (IF s[1] = "|" THEN <<" ", " ">> ELSE <<s[1]>>) \o replacePipes(Tail(s))

Blanks == {" "}
Tabs == {TAB}

\* s.split(/ {2,}|\t+/): cur is the piece being collected from position p on
RECURSIVE splitFrom(_, _, _)
splitFrom(s, p, cur) ==
    IF p > Len(s) THEN <<cur>>
    ELSE IF RunLen(Blanks, s, p) >= 2
         THEN <<cur>> \o splitFrom(s, p + RunLen(Blanks, s, p), <<>>)
    ELSE IF s[p] \in Tabs
         THEN <<cur>> \o splitFrom(s, p + RunLen(Tabs, s, p), <<>>)
    ELSE splitFrom(s, p + 1, Append(cur, s[p]))

MinColumns == 3

columnsOf(parts) == IF Len(parts) >= MinColumns THEN parts ELSE canonicalColumns

trimAll(pieces) == [k \in 1..Len(pieces) |-> trim(pieces[k])]

splitColumns(header) ==
    columnsOf(SelectSeq(trimAll(splitFrom(replacePipes(header), 1, <<>>)),
                        LAMBDA x : x # <<>>))

finiteOrZero(n) == IF n.t = "number" THEN n ELSE Num(0)

\* toNumber of parse.ts (lines 24-28)
parseToNumber(x) ==
    IF x.t \in {"number", "notfinite"} THEN finiteOrZero(x)
    ELSE finiteOrZero(Number(stripMoney(String(x))))

\* \b at the gap before position p of s (p = Len(s) + 1: the end)
wordBoundary(s, p) ==
    (p > 1 /\ IsWord(s[p - 1])) # (p <= Len(s) /\ IsWord(s[p]))

\* [\d,]
DigitsAndComma == Digits \cup {","}

Minimum(S) == CHOOSE x \in S : \A y \in S : x <= y

\* \.\d{2}\b at position dot, after a run of run characters of [\d,]: the length
\* of the whole group, 0 if there is no match
amountTail(s, run, dot) ==
    IF /\ run >= 1
       /\ dot + 2 <= Len(s)
       /\ s[dot] = "."
       /\ IsDigit(s[dot + 1])
       /\ IsDigit(s[dot + 2])
       /\ wordBoundary(s, dot + 3)
    THEN run + 3
    ELSE 0

amountRun(s, g, run) == amountTail(s, run, g + run)

\* the length of the match of ([\d,]+\.\d{2})\b at position g, 0 if none: the
\* greedy [\d,]+ takes the whole run, and no shorter run is followed by "."
amountGroupLen(s, g) == amountRun(s, g, RunLen(DigitsAndComma, s, g))

skipSpace(s, q) == q + RunLen(Spaces, s, q)

\* where the group starts when /[$]?\s*(...)/ is tried at position p: the
\* optional "$" and the blanks are taken greedily, and giving any back leaves the
\* group on a "$" or a blank, where it cannot match
amountGroupStart(s, p) ==
    skipSpace(s, IF p <= Len(s) /\ s[p] = "$" THEN p + 1 ELSE p)

amountAt(line, g) == Str(SubSeq(line, g, g + amountGroupLen(line, g) - 1))

firstAmount(line, starts) ==
    IF starts = {} THEN Null
    ELSE amountAt(line, amountGroupStart(line, Minimum(starts)))

\* line.match(/[$]?\s*([\d,]+\.\d{2})\b/): group 1 of the leftmost match
matchAmount(line) ==
    firstAmount(line, {p \in 1..Len(line) :
                           amountGroupLen(line, amountGroupStart(line, p)) > 0})

MaxCountDigits == 4

standaloneRun(s, p, run) ==
    IF /\ run >= 1
       /\ run <= MaxCountDigits
       /\ wordBoundary(s, p)
       /\ wordBoundary(s, p + run)
    THEN run
    ELSE 0

\* the length of the match of \b(\d{1,4})\b at position p, 0 if none
standaloneLen(s, p) == standaloneRun(s, p, RunLen(Digits, s, p))

\* (?!.*\b\d{1,4}\b) at position q
noneAfter(s, q) == ~\E r \in q..Len(s) : standaloneLen(s, r) > 0

countAt(line, p, len) == Str(SubSeq(line, p, p + len - 1))

firstCount(line, starts) ==
    IF starts = {} THEN Null
    ELSE countAt(line, Minimum(starts), standaloneLen(line, Minimum(starts)))

countStart(line, p, len) == len > 0 /\ noneAfter(line, p + len)

\* line.match(/\b(\d{1,4})\b(?!.*\b\d{1,4}\b)/): group 1 of the leftmost match, a
\* standalone integer after whose end no standalone integer starts
matchCount(line) ==
    firstCount(line, {p \in 1..Len(line) :
                          countStart(line, p, standaloneLen(line, p))})

\* line 34
amountOf(mAmount) == IF mAmount # Null THEN parseToNumber(mAmount) ELSE Undefined
\* line 36
countOf(mCount) == IF mCount # Null THEN Number(mCount.s) ELSE Undefined

\* lines 37-38
totalsOf(count, amount) ==
    IF IsNullish(amount) /\ IsNullish(count) THEN Null
    ELSE [count |-> count, amount |-> amount]

parseTotals(line) ==
    IF ~includes(toUpperCase(line), <<"T", "O", "T", "A", "L">>) THEN Null
    ELSE totalsOf(countOf(matchCount(line)), amountOf(matchAmount(line)))

\* \d{3}-\d{3}-\d{3} at position p
sinAt(s, p) ==
    /\ p + 10 <= Len(s)
    /\ \A k \in 0..10 :
           IF k \in {3, 7} THEN s[p + k] = "-" ELSE IsDigit(s[p + k])

\* \d{2}\/\d{2}\/\d{2} at position p
dateAt(s, p) ==
    /\ p + 7 <= Len(s)
    /\ \A k \in 0..7 :
           IF k \in {2, 5} THEN s[p + k] = "/" ELSE IsDigit(s[p + k])

\* \.\d{2}$ at position dot, after a run of run characters of [\d,]
amountEnds(s, run, dot) ==
    /\ run >= 1
    /\ dot + 2 = Len(s)
    /\ s[dot] = "."
    /\ IsDigit(s[dot + 1])
    /\ IsDigit(s[dot + 2])

amountDigits(s, q) ==
    amountEnds(s, RunLen(DigitsAndComma, s, q), q + RunLen(DigitsAndComma, s, q))

\* ([$]?[\d,]+\.\d{2})$ at position p: the match runs to the end of s
amountToEnd(s, p) ==
    amountDigits(s, IF p <= Len(s) /\ s[p] = "$" THEN p + 1 ELSE p)

\* (date)\s+(amount)$ at position d, p the position \s+ before it started at
dateFrom(s, p, d) ==
    IF /\ d > p
       /\ dateAt(s, d)
       /\ skipSpace(s, d + 8) > d + 8
       /\ amountToEnd(s, skipSpace(s, d + 8))
    THEN d
    ELSE 0

\* where (\d{2}\/\d{2}\/\d{2}) starts when \s+(date)\s+(amount)$ matches from
\* position p on, 0 when it does not
tailDate(s, p) == dateFrom(s, p, skipSpace(s, p))

MinStudentDigits == 3
MinCertDigits == 4

NoMatch ==
    [ok |-> FALSE, m1 |-> <<>>, m2 |-> <<>>, m3 |-> <<>>, m4 |-> <<>>,
     m5 |-> <<>>, m6 |-> <<>>, m7 |-> <<>>]

\* l.match(rx) of parseRow, group by group.  Each quantifier but the name's is
\* greedy, and what it could give back cannot start the group that follows, so
\* the backtracking search has one choice only: where the name ends.

\* (\d{2}\/\d{2}\/\d{2})\s+([$]?[\d,]+\.\d{2})$ with the date at d
matchTail(l, m, d) ==
    [m EXCEPT !.ok = TRUE,
              !.m6 = SubSeq(l, d, d + 7),
              !.m7 = SubSeq(l, skipSpace(l, d + 8), Len(l))]

\* the name runs from position c[1] to position c[2]
nameChosen(l, m, c) ==
    matchTail(l, [m EXCEPT !.m5 = SubSeq(l, c[1], c[2])], tailDate(l, c[2] + 1))

\* the search tries the longest \s+ first and, for each, the shortest name
firstName(l, m, cands) ==
    IF cands = {} THEN NoMatch
    ELSE nameChosen(l, m, CHOOSE x \in cands : \A y \in cands :
                              \/ x[1] > y[1]
                              \/ x[1] = y[1] /\ x[2] <= y[2])

\* \s+(.+?)\s+(date)\s+(amount)$ at position p, of which w3 are blank
matchName(l, m, p, w3) ==
    firstName(l, m, {c \in ((p + 1)..(p + w3)) \X (1..Len(l)) :
                         c[2] >= c[1] /\ tailDate(l, c[2] + 1) > 0})

certDigits(l, m, q, n4) ==
    IF n4 >= MinCertDigits
    THEN matchName(l, [m EXCEPT !.m4 = SubSeq(l, q, q + n4 - 1)], q + n4,
                   RunLen(Spaces, l, q + n4))
    ELSE NoMatch

\* \s*(\d{4,}) at position p
matchCert(l, m, p) ==
    certDigits(l, m, skipSpace(l, p), RunLen(Digits, l, skipSpace(l, p)))

twoUpperAt(l, q) == q + 1 <= Len(l) /\ IsUpper(l[q]) /\ IsUpper(l[q + 1])

govAt(l, m, q, hasGov) ==
    matchCert(l, [m EXCEPT !.m3 = IF hasGov THEN SubSeq(l, q, q + 1) ELSE <<>>],
              IF hasGov THEN q + 2 ELSE q)

afterSin(l, m, p, q) ==
    IF q > p THEN govAt(l, m, q, twoUpperAt(l, q)) ELSE NoMatch

\* \s+([A-Z]{2})? at position p
matchGov(l, m, p) == afterSin(l, m, p, skipSpace(l, p))

sinFrom(l, m, p, q) ==
    IF q > p /\ sinAt(l, q)
    THEN matchGov(l, [m EXCEPT !.m2 = SubSeq(l, q, q + 10)], q + 11)
    ELSE NoMatch

\* \s+(\d{3}-\d{3}-\d{3}) at position p
matchSin(l, m, p) == sinFrom(l, m, p, skipSpace(l, p))

studentDigits(l, n1) ==
    IF n1 >= MinStudentDigits
    THEN matchSin(l, [NoMatch EXCEPT !.m1 = SubSeq(l, 1, n1)], n1 + 1)
    ELSE NoMatch

\* ^(\d{3,})
rowMatch(l) == studentDigits(l, RunLen(Digits, l, 1))

NoRow == [isRow |-> FALSE]

\* a variant that keeps an empty gov group as the empty string
govKept(g) == Str(g)

\* (m[3] || "").trim() || undefined
govOf(g) == IF g = <<>> THEN Undefined ELSE Str(g)

\* lines 46-55
rowOf(m) ==
    IF ~m.ok THEN NoRow
    ELSE [isRow |-> TRUE,
          studentNo |-> Str(m.m1),
          sin |-> Str(m.m2),
          gov |-> govOf(trim(m.m3)),
          cert |-> Str(m.m4),
          name |-> Str(m.m5),
          eosDate |-> Str(m.m6),
          amount |-> Str(m.m7)]

parseRow(line) == rowOf(rowMatch(normalize(line)))

FallbackHeaderIdx == 4

Min(a, b) == IF a < b THEN a ELSE b

\* lines.map(normalize).filter(Boolean)
cleanLines(ls) ==
    SelectSeq([k \in 1..Len(ls) |-> normalize(ls[k])], LAMBDA x : x # <<>>)

\* a variant that takes the last of hits
lastIndex(hits) ==
    IF hits = {} THEN -1 ELSE (CHOOSE k \in hits : \A j \in hits : j <= k) - 1

\* the 0-based index of the first of hits, -1 if there is none
firstIndex(hits) == IF hits = {} THEN -1 ELSE Minimum(hits) - 1

\* clean.findIndex(looksLikeHeader)
findHeaderIndex(cl) == firstIndex({k \in 1..Len(cl) : looksLikeHeader(cl[k])})

\* line 83
orFallback(idx, cl) == IF idx < 0 THEN Min(FallbackHeaderIdx, Len(cl)) ELSE idx

\* lines 82-83
headerIndex(cl) == orFallback(findHeaderIndex(cl), cl)

\* `Page ${n}`
pageLabel(n) == <<"P", "a", "g", "e", " ">> \o digitsOf(n)

-----------------------------------------------------------------------------
(* Bounds and inputs of the Page Assembler                                 *)

MaxLines == 5

\* a header-like line (SIN, GOV, CERT, NAME), raw: no pipe, runs of blanks
HeaderLine == <<"S", "I", "N", " ", " ", "G", "o", "v", TAB, "C", "e", "r", "t", " ", " ", "N", "a", "m", "e">>
\* a data row with a gov code, raw: a doubled blank, pipes in the name
RowLineA == <<"1", "2", "3", " ", "1", "2", "3", "-", "4", "5", "6", "-", "7", "8", "9", " ", " ", "O", "N", " ", "4", "5", "6", "7", " ", "D", "O", "E", "|", "J", "|", "R", " ", "0", "8", "/", "0", "9", "/", "2", "3", " ", "$", "5", ".", "0", "0">>
\* a data row without gov code whose name holds two keywords (EOS, DATE)
RowLineB == <<"0", "0", "0", "1", "2", "3", "4", " ", "9", "8", "7", "-", "6", "5", "4", "-", "3", "2", "1", " ", "4", "5", "6", "7", "8", " ", "E", "o", "s", " ", "D", "a", "t", "e", " ", "0", "1", "/", "0", "2", "/", "0", "3", " ", "1", ",", "0", "0", "0", ".", "0", "0", NBSP>>
\* the totals line of the specification's example
TotalsLine == <<"T", "O", "T", "A", "L", " ", "1", "2", " ", "$", "2", "6", ",", "4", "6", "0", ".", "0", "0">>
\* a line that is blank once normalized
BlankLine == <<" ", TAB, NBSP>>

LinePool == {HeaderLine, RowLineA, RowLineB, TotalsLine, BlankLine}

PageInputs == UNION {[1..n -> LinePool] : n \in 0..MaxLines}

NoPage == [isPage |-> FALSE]

Init ==
    /\ lines = <<>>
    /\ pageIndex = 0
    /\ clean = <<>>
    /\ headerIdx = 0
    /\ i = 0
    /\ rows = <<>>
    /\ totals = Undefined
    /\ pc = "idle"
    /\ result = NoPage
    /\ fields = NoRow
    /\ rowLine = <<>>
    /\ parsed = NoRow
    /\ rowPc = "fields"
    /\ pages = <<>>
    /\ used = {}
    /\ sheets = <<>>

-----------------------------------------------------------------------------
(* parseFromLines, one action per step                                     *)

\* a variant whose loop starts at the header index itself
StartScanAtHeader(ls, n, cl, idx) ==
    /\ pc = "idle"
    /\ lines' = ls
    /\ pageIndex' = n
    /\ clean' = cl
    /\ headerIdx' = idx
    /\ rows' = <<>>
    /\ totals' = Undefined
    /\ i' = idx
    /\ pc' = "scan"
    /\ UNCHANGED <<result, rowVars, bookVars>>

\* lines 82-90, cl the lines of line 81: up to the first test of the loop
StartScan(ls, n, cl, idx) ==
    /\ pc = "idle"
    /\ lines' = ls
    /\ pageIndex' = n
    /\ clean' = cl
    /\ headerIdx' = idx
    /\ rows' = <<>>
    /\ totals' = Undefined
    /\ i' = idx + 1
    /\ pc' = "scan"
    /\ UNCHANGED <<result, rowVars, bookVars>>

CleanStart(ls, n, cl) == StartScan(ls, n, cl, headerIndex(cl))

ParseStart(ls, n) == CleanStart(ls, n, cleanLines(ls))

\* const ln = clean[i]
ln == clean[i + 1]

\* a variant without the break: the loop goes on after a totals line
RecordTotalsNoBreak(t) ==
    /\ t # Null
    /\ totals' = t
    /\ i' = i + 1
    /\ UNCHANGED <<lines, pageIndex, clean, headerIdx, rows, pc, result,
                   rowVars, bookVars>>

\* lines 95-98: totals = t; break
RecordTotals(t) ==
    /\ t # Null
    /\ totals' = t
    /\ pc' = "return"
    /\ UNCHANGED <<lines, pageIndex, clean, headerIdx, i, rows, result,
                   rowVars, bookVars>>

\* lines 94-98: a totals line is recorded and ends the loop
ScanTotals ==
    /\ pc = "scan"
    /\ i < Len(clean)
    /\ RecordTotals(parseTotals(ln))

\* line 100: if (r) rows.push(r)
PushRow(r) ==
    /\ r.isRow
    /\ rows' = Append(rows, r)
    /\ i' = i + 1
    /\ UNCHANGED <<lines, pageIndex, clean, headerIdx, totals, pc, result,
                   rowVars, bookVars>>

\* lines 99-100, r a row
ScanRow ==
    /\ pc = "scan"
    /\ i < Len(clean)
    /\ parseTotals(ln) = Null
    /\ PushRow(parseRow(ln))

\* lines 99-100, r null
ScanSkip ==
    /\ pc = "scan"
    /\ i < Len(clean)
    /\ parseTotals(ln) = Null
    /\ ~parseRow(ln).isRow
    /\ i' = i + 1
    /\ UNCHANGED <<lines, pageIndex, clean, headerIdx, rows, totals, pc, result,
                   rowVars, bookVars>>

\* line 92: the loop condition fails
ScanEnd ==
    /\ pc = "scan"
    /\ i >= Len(clean)
    /\ pc' = "return"
    /\ UNCHANGED <<lines, pageIndex, clean, headerIdx, i, rows, totals, result,
                   rowVars, bookVars>>

\* line 85
headerLines == SubSeq(clean, 1, headerIdx)
\* line 86: clean[headerIdx] || ""
headerLine == IF headerIdx < Len(clean) THEN clean[headerIdx + 1] ELSE <<>>
\* line 87
columns == splitColumns(headerLine)

\* lines 103-104
ParseReturn ==
    /\ pc = "return"
    /\ result' = [isPage |-> TRUE,
                  sheetName |-> IF headerLines # <<>> THEN Str(headerLines[1])
                                ELSE Str(pageLabel(pageIndex)),
                  headerLines |-> headerLines,
                  columns |-> columns,
                  rows |-> rows,
                  totals |-> totals]
    /\ pc' = "done"
    /\ UNCHANGED <<lines, pageIndex, clean, headerIdx, i, rows, totals,
                   rowVars, bookVars>>

\* the caller counts the pages from 1; the index shows in the default sheetName
\* only
PageIndexes == {1}

\* the call from parseDisbursementPageFromText or ...FromCanvas
ParsePage ==
    /\ pc = "idle"
    /\ \E ls \in PageInputs, n \in PageIndexes : ParseStart(ls, n)

Next == ParsePage \/ ScanTotals \/ ScanRow \/ ScanSkip \/ ScanEnd \/ ParseReturn

\* the Page Assembler
Spec == Init /\ [][Next]_vars

-----------------------------------------------------------------------------
(* parseRow on synthesized lines                                           *)

MaxNameLen == 3

NameAlphabet == {"A", "7", " "}

StudentNos == {<<"1", "2", "3">>, <<"0", "0", "0", "1", "2", "3", "4">>}
Sins == {<<"1", "2", "3", "-", "4", "5", "6", "-", "7", "8", "9">>}
Govs == {Undefined, Str(<<"O", "N">>)}
Certs == {<<"4", "5", "6", "7">>, <<"0", "0", "0", "4", "5", "6", "7", "8">>}
Names ==
    UNION {[1..n -> NameAlphabet] : n \in 1..MaxNameLen}
      \cup {<<"D", "O", "E", " ", "J", "O", "H", "N">>, <<"O", "'", "N", "E", "I", "L", " ", "0", "1", "/", "0", "2", "/", "0", "3", " ", "$", "5", ".", "0", "0">>, <<"A", TAB, "B">>, <<"A", NBSP, "B">>, <<"S", "M", "I", "T", "H", " ">>}
EosDates == {<<"0", "8", "/", "0", "9", "/", "2", "3">>}
Amounts == {<<"$", "2", ",", "2", "0", "5", ".", "0", "0">>, <<"5", ".", "0", "0">>}

FieldSets ==
    {[isRow |-> TRUE, studentNo |-> Str(a), sin |-> Str(b), gov |-> c,
      cert |-> Str(d), name |-> Str(e), eosDate |-> Str(f), amount |-> Str(g)] :
        a \in StudentNos, b \in Sins, c \in Govs, d \in Certs, e \in Names,
        f \in EosDates, g \in Amounts}

\* the present fields joined by single blanks
synthesize(fs) ==
    fs.studentNo.s \o <<" ">> \o fs.sin.s \o <<" ">>
      \o (IF fs.gov.t = "string" THEN fs.gov.s \o <<" ">> ELSE <<>>)
      \o fs.cert.s \o <<" ">> \o fs.name.s \o <<" ">> \o fs.eosDate.s
      \o <<" ">> \o fs.amount.s

Synthesize(fs) ==
    /\ rowPc = "fields"
    /\ fields' = fs
    /\ rowLine' = synthesize(fs)
    /\ rowPc' = "line"
    /\ UNCHANGED <<parsed, parseVars, bookVars>>

SynthesizeRow ==
    /\ rowPc = "fields"
    /\ \E fs \in FieldSets : Synthesize(fs)

ParseRowLine ==
    /\ rowPc = "line"
    /\ parsed' = parseRow(rowLine)
    /\ rowPc' = "parsed"
    /\ UNCHANGED <<fields, rowLine, parseVars, bookVars>>

NextRow == SynthesizeRow \/ ParseRowLine

\* the Row Parser applied to synthesized lines
SpecRow == Init /\ [][NextRow]_vars

-----------------------------------------------------------------------------
(* makeExcel.ts (the second half of utils/parse.ts)                        *)

\* the digits of the fraction f (0..99 hundredths) without trailing zeros
fractionText(f) ==
    IF f = 0 THEN <<>>
    ELSE IF f % 10 = 0 THEN <<".", DigitSeq[(f \div 10) + 1]>>
    ELSE <<".", DigitSeq[(f \div 10) + 1], DigitSeq[(f % 10) + 1]>>

\* String(n) of a non-negative finite number
unsignedText(v) == digitsOf(v \div 100) \o fractionText(v % 100)

\* String(n) of a number
numberText(x) ==
    IF x.t = "notfinite" THEN <<"N", "a", "N">>
    ELSE IF x.v < 0 THEN <<"-">> \o unsignedText(0 - x.v)
    ELSE unsignedText(x.v)

\* line 148
asString(x) ==
    IF IsNullish(x) THEN <<>>
    ELSE IF x.t = "string" THEN x.s
    ELSE numberText(x)

\* lines 153-157
toNumber(x) ==
    IF x.t \in {"number", "notfinite"} THEN finiteOrZero(x)
    ELSE finiteOrZero(Number(stripMoney(asString(x))))

\* the digits ds in groups of three, separated by commas
RECURSIVE grouped(_)
grouped(ds) ==
    IF Len(ds) <= 3 THEN ds
    ELSE grouped(SubSeq(ds, 1, Len(ds) - 3)) \o <<",">>
           \o SubSeq(ds, Len(ds) - 2, Len(ds))

twoDigits(f) == <<DigitSeq[(f \div 10) + 1], DigitSeq[(f % 10) + 1]>>

unsignedMoney(v) == grouped(digitsOf(v \div 100)) \o <<".">> \o twoDigits(v % 100)

\* lines 160-165: n.toLocaleString(undefined, {minimumFractionDigits: 2,
\* maximumFractionDigits: 2}) of a finite number, in the en-US locale the
\* "$#,##0.00" format of the output is written for
fmtMoney(n) ==
    IF n.v < 0 THEN <<"-">> \o unsignedMoney(0 - n.v) ELSE unsignedMoney(n.v)

\* `$${fmtMoney(n)}`
dollars(n) == <<"$">> \o fmtMoney(n)

\* lines 168-170
RECURSIVE sumFrom(_, _, _)
sumFrom(rs, k, acc) ==
    IF k > Len(rs) THEN acc
    ELSE sumFrom(rs, k + 1, Num(acc.v + toNumber(rs[k].amount).v))

sumAmounts(rs) == sumFrom(rs, 1, Num(0))

MaxSheetNameLen == 31
SuffixReserve == 4

\* [\\/*?:\[\]:]
IllegalNameChars == {"\\", "/", "*", "?", ":", "[", "]"}

stripIllegal(s) == SelectSeq(s, LAMBDA c : c \notin IllegalNameChars)

\* lines 181-183
nameOrPage(s, indexZeroBased) ==
    slice0(IF s = <<>> THEN pageLabel(indexZeroBased + 1) ELSE s, MaxSheetNameLen)

\* lines 179-184
safeSheetName(raw, indexZeroBased) ==
    nameOrPage(trim(stripIllegal(asString(raw))), indexZeroBased)

\* line 192: `${stem} (${n})`
suffixed(stem, n) == stem \o <<" ", "(">> \o digitsOf(n) \o <<")">>

\* lines 189-194: the while loop, name and n its variables
RECURSIVE uniqueFrom(_, _, _, _)
uniqueFrom(base, usedNames, name, n) ==
    IF name \in usedNames
    THEN uniqueFrom(base, usedNames,
                    suffixed(slice0(base, MaxSheetNameLen - SuffixReserve), n), n + 1)
    ELSE name

FirstSuffix == 2

\* lines 186-197, but for used.add(name)
uniqueSheetName(base, usedNames) == uniqueFrom(base, usedNames, base, FirstSuffix)

defaultHeaders == canonicalColumns

\* lines 222-225
headersOf(page) == IF page.columns # <<>> THEN page.columns ELSE defaultHeaders

\* a variant with || for ??: an empty sheetName gives way to the headerLines
intendedNameFalsy(page, idx) ==
    IF ~IsNullish(page.sheetName) /\ page.sheetName # Str(<<>>) THEN page.sheetName
    ELSE IF page.headerLines # <<>> THEN Str(page.headerLines[1])
    ELSE Str(pageLabel(idx + 1))

\* page.sheetName ?? page.headerLines?.[0] ?? `Page ${idx + 1}`
intendedName(page, idx) ==
    IF ~IsNullish(page.sheetName) THEN page.sheetName
    ELSE IF page.headerLines # <<>> THEN Str(page.headerLines[1])
    ELSE Str(pageLabel(idx + 1))

\* lines 257-265: the getter of a canonical label
FieldOfLabel ==
    << <<<<"S", "T", "U", "D", "E", "N", "T", " ", "N", "O">>, "studentNo">>, <<<<"S", "I", "N">>, "sin">>, <<<<"G", "O", "V">>, "gov">>,
       <<<<"C", "E", "R", "T", " ", "#">>, "cert">>, <<<<"A", "B", "B", "R", "E", "V", "I", "A", "T", "E", "D", " ", "N", "A", "M", "E">>, "name">>,
       <<<<"E", "O", "S", " ", "D", "A", "T", "E">>, "eosDate">>, <<<<"A", "M", "O", "U", "N", "T">>, "amount">> >>

\* the property names of a ParsedRow
FieldNames ==
    << <<<<"s", "t", "u", "d", "e", "n", "t", "N", "o">>, "studentNo">>, <<<<"s", "i", "n">>, "sin">>, <<<<"g", "o", "v">>, "gov">>,
       <<<<"c", "e", "r", "t">>, "cert">>, <<<<"n", "a", "m", "e">>, "name">>, <<<<"e", "o", "s", "D", "a", "t", "e">>, "eosDate">>,
       <<<<"a", "m", "o", "u", "n", "t">>, "amount">> >>

\* the value table pairs key with, Undefined if there is none
lookup(table, key, r) ==
    IF \E k \in DOMAIN table : table[k][1] = key
    THEN r[table[CHOOSE k \in DOMAIN table : table[k][1] = key][2]]
    ELSE Undefined

\* lines 271-272: getter ? getter(r) : r[h]
rawOf(r, h) ==
    IF \E k \in DOMAIN FieldOfLabel : FieldOfLabel[k][1] = toUpperCase(h)
    THEN lookup(FieldOfLabel, toUpperCase(h), r)
    ELSE lookup(FieldNames, h, r)

\* line 277
moneyOrRaw(n, raw) == IF n.t = "number" THEN Str(dollars(n)) ELSE Str(asString(raw))

\* lines 275-280
cellOf(h, raw) ==
    IF includes(toUpperCase(h), <<"A", "M", "O", "U", "N", "T">>) THEN moneyOrRaw(toNumber(raw), raw)
    ELSE Str(asString(raw))

\* lines 270-284: the cells of one data row
dataCells(headers, r) == [c \in 1..Len(headers) |-> cellOf(headers[c], rawOf(r, headers[c]))]

\* page.totals?.count, page.totals?.amount
totalsCountOf(page) == IF page.totals = Undefined THEN Undefined ELSE page.totals.count
totalsAmountOf(page) == IF page.totals = Undefined THEN Undefined ELSE page.totals.amount

\* lines 290-291
totalCount(page) ==
    IF ~IsNullish(totalsCountOf(page)) THEN totalsCountOf(page)
    ELSE Num(100 * Len(page.rows))

\* a variant that sums the rows only when the page has no totals at all
totalAmountWhenTotals(page) ==
    IF page.totals # Undefined THEN toNumber(totalsAmountOf(page))
    ELSE sumAmounts(page.rows)

\* lines 292-293
totalAmountNum(page) ==
    IF ~IsNullish(totalsAmountOf(page)) THEN toNumber(totalsAmountOf(page))
    ELSE sumAmounts(page.rows)

TotalsLabel == <<"T", "O", "T", "A", "L", " ", "F", "O", "R", " ", "T", "H", "I", "S", " ", "D", "I", "S", "B", "U", "R", "S", "E", "M", "E", "N", "T">>

\* lines 298-300: the three cells written, in the order written
totalsCells(n, count, amount) ==
    [c \in 1..n |->
        IF c = n THEN Str(dollars(amount))
        ELSE IF c = n - 1 THEN count
        ELSE IF c = 1 THEN Str(TotalsLabel)
        ELSE Undefined]

BlankRow == [kind |-> "blank", cells |-> <<>>]

\* a variant without the spacer row after the preamble
headerRowNoSpacer(P) == P + 1

\* line 233 to line 252: the row index of the table header row
headerRowIndex(P) == IF P > 0 THEN P + 2 ELSE 1

\* line 295: rowIndex++ once more after the last data row
totalsRowIndex(P, R) == headerRowIndex(P) + 1 + R + 1

\* what row k of the sheet holds once the page is written
rowAt(page, headers, k, hdr) ==
    IF k <= Len(page.headerLines)
    THEN [kind |-> "preamble", cells |-> <<Str(asString(Str(page.headerLines[k])))>>]
    ELSE IF k = hdr THEN [kind |-> "header", cells |-> <<>>]
    ELSE IF k > hdr /\ k <= hdr + Len(page.rows)
         THEN [kind |-> "data", cells |-> dataCells(headers, page.rows[k - hdr])]
    ELSE IF k = totalsRowIndex(Len(page.headerLines), Len(page.rows))
         THEN [kind |-> "totals",
               cells |-> totalsCells(Len(headers), totalCount(page),
                                     totalAmountNum(page))]
    ELSE BlankRow

\* lines 233-307: the rows of the sheet, by row index
sheetRows(page, headers) ==
    [k \in 1..totalsRowIndex(Len(page.headerLines), Len(page.rows)) |->
        rowAt(page, headers, k, headerRowIndex(Len(page.headerLines)))]

-----------------------------------------------------------------------------
(* createWorkbookFromPages: one action per iteration of pages.forEach      *)

\* lines 218-219 and 233-307: the sheet is added under wsName and written
WriteSheet(page, wsName, headers) ==
    /\ pages' = Append(pages, page)
    /\ used' = used \cup {wsName}
    /\ sheets' = Append(sheets, [name |-> wsName,
                                 headers |-> headers,
                                 rows |-> sheetRows(page, headers)])
    /\ UNCHANGED <<parseVars, rowVars>>

\* lines 217-218, idx the 0-based position of the page
NameSheet(page, idx) ==
    WriteSheet(page,
               uniqueSheetName(safeSheetName(intendedName(page, idx), idx), used),
               headersOf(page))

\* lines 215-308: the callback of pages.forEach for the next page
AddWorksheet(page) == NameSheet(page, Len(pages))

\* A ParsedPage with neither headerLines nor columns is written as one whose
\* headerLines or columns is empty (lines 217, 223 and 236 treat both alike), and
\* columns is what splitColumns returns: no labels, or MinColumns and more.

aRow(amount) ==
    [isRow |-> TRUE, studentNo |-> Str(<<"0", "0", "0", "1", "2", "3">>), sin |-> Str(<<"1", "2", "3", "-", "4", "5", "6", "-", "7", "8", "9">>),
     gov |-> Undefined, cert |-> Str(<<"4", "5", "6", "7", "8">>), name |-> Str(<<"D", "O", "E", " ", "J", "O", "H", "N">>),
     eosDate |-> Str(<<"0", "8", "/", "0", "9", "/", "2", "3">>), amount |-> amount]

\* the specification's example: three rows of 100.00 and no totals
ExamplePage ==
    [sheetName |-> Str(<<"S", "u", "m", "m", "a", "r", "y">>),
     headerLines |-> <<<<"S", "u", "m", "m", "a", "r", "y">>, <<"R", "u", "n", " ", "1">>>>,
     columns |-> <<>>,
     rows |-> <<aRow(Str(<<"1", "0", "0", ".", "0", "0">>)), aRow(Str(<<"1", "0", "0", ".", "0", "0">>)), aRow(Str(<<"1", "0", "0", ".", "0", "0">>))>>,
     totals |-> Undefined]

\* no sheetName, totals with a count only, an amount that is no number
CountOnlyPage ==
    [sheetName |-> Undefined,
     headerLines |-> <<<<"S", "u", "m", "m", "a", "r", "y">>>>,
     columns |-> canonicalColumns,
     rows |-> <<aRow(Str(<<"$", "2", ",", "2", "0", "5", ".", "0", "0">>)), aRow(Str(<<"N", "/", "A">>))>>,
     totals |-> [count |-> Num(1200), amount |-> Undefined]]

\* neither sheetName nor headerLines, no rows, totals with an amount only
AmountOnlyPage ==
    [sheetName |-> Undefined,
     headerLines |-> <<>>,
     columns |-> <<<<"n", "a", "m", "e">>, <<"E", "o", "s", " ", "D", "a", "t", "e">>, <<"A", "m", "o", "u", "n", "t", " ", "(", "$", ")">>, <<"a", "m", "o", "u", "n", "t">>>>,
     rows |-> <<>>,
     totals |-> [count |-> Undefined, amount |-> Num(2646000)]]

\* a sheetName of illegal characters only, a numeric amount, both totals
BothTotalsPage ==
    [sheetName |-> Str(<<"[", ":", "]", "/", " ">>),
     headerLines |-> <<<<"R", "e", "p", "o", "r", "t">>>>,
     columns |-> <<<<"n", "a", "m", "e">>, <<"E", "o", "s", " ", "D", "a", "t", "e">>, <<"A", "m", "o", "u", "n", "t", " ", "(", "$", ")">>, <<"a", "m", "o", "u", "n", "t">>>>,
     rows |-> <<aRow(Num(12345))>>,
     totals |-> [count |-> Num(700), amount |-> Str(<<"$", "1", ",", "0", "0", "0", ".", "0", "0">>)]]

\* amounts that are missing, not finite, unparseable and negative
OddAmountsPage ==
    [sheetName |-> Str(<<"S", "u", "m", "m", "a", "r", "y">>),
     headerLines |-> <<>>,
     columns |-> <<>>,
     rows |-> <<aRow(Undefined), aRow(NotFinite), aRow(Str(<<"1", "2", "x">>)),
                aRow(Str(<<"-", "1", ",", "2", "3", "4", ",", "5", "6", "7", ".", "5">>))>>,
     totals |-> Undefined]

\* an empty sheetName: "" is not nullish, the headerLines are not consulted
EmptyNamePage ==
    [sheetName |-> Str(<<>>),
     headerLines |-> <<<<"S", "u", "m", "m", "a", "r", "y">>>>,
     columns |-> <<>>,
     rows |-> <<aRow(Str(<<"0", ".", "0", "5">>))>>,
     totals |-> [count |-> Num(0), amount |-> Num(0)]]

BookPages ==
    {ExamplePage, CountOnlyPage, AmountOnlyPage, BothTotalsPage, OddAmountsPage,
     EmptyNamePage}

MaxPages == 3

AddBookPage ==
    /\ Len(pages) < MaxPages
    /\ \E page \in BookPages : AddWorksheet(page)

NextBook == AddBookPage

\* the Workbook Assembler on pages of every shape
SpecBook == Init /\ [][NextBook]_vars

\* pages that differ in their intended name only
namedPage(nm) ==
    [sheetName |-> Str(nm), headerLines |-> <<>>, columns |-> <<>>,
     rows |-> <<>>, totals |-> Undefined]

\* 27 characters: as long as the stem uniqueSheetName keeps
Name27 == <<"D", "i", "s", "b", "u", "r", "s", "e", "m", "e", "n", "t", " ", "R", "e", "p", "o", "r", "t", " ", "2", "0", "2", "3", " ", "Q", "1">>
\* 35 characters once sanitized, cut to 31; its stem is Name27
Name35 == <<"D", "i", "s", "b", "u", "r", "s", "e", "m", "e", "n", "t", " ", "R", "e", "p", "o", "r", "t", " ", "2", "0", "2", "3", " ", "Q", "1", ":", " ", "[", "O", "n", "t", "a", "r", "i", "o", "]">>
NameShort == <<"S", "u", "m", "m", "a", "r", "y">>

NamePages == {namedPage(Name27), namedPage(Name35), namedPage(NameShort)}

MaxNamePages == 10

AddNamedPage ==
    /\ Len(pages) < MaxNamePages
    /\ \E page \in NamePages : AddWorksheet(page)

NextNames == AddNamedPage

\* the Workbook Assembler on many pages with colliding names
SpecNames == Init /\ [][NextNames]_vars

-----------------------------------------------------------------------------
(* Properties                                                              *)

\* the data rows of sheet k, top to bottom
dataRowsOf(k) == SelectSeq(sheets[k].rows, LAMBDA r : r.kind = "data")

\* the last row of sheet k
lastRowOf(k) == sheets[k].rows[Len(sheets[k].rows)]

\* the kinds of the rows of sheet k, top to bottom
kindsOf(k) == [j \in 1..Len(sheets[k].rows) |-> sheets[k].rows[j].kind]

repeated(kind, n) == [j \in 1..n |-> kind]

\* C1: the sheet names assigned to the pages of one call are pairwise distinct
\* and each is at most 31 characters long.
C1_DistinctAndBounded ==
    /\ \A a, b \in DOMAIN sheets : a # b => sheets[a].name # sheets[b].name
    /\ \A a \in DOMAIN sheets : Len(sheets[a].name) <= 31

\* C2: the totals recorded from the line "TOTAL 12 $26,460.00" have count 12
\* and amount 26460.00.
C2_TotalsCountAndAmount ==
    (/\ pc \in {"return", "done"}
     /\ totals # Undefined
     /\ clean[i + 1] = <<"T", "O", "T", "A", "L", " ", "1", "2", " ", "$", "2", "6", ",", "4", "6", "0", ".", "0", "0">>)
        => totals = [count |-> Num(1200), amount |-> Num(2646000)]

\* what the totals row of each page of BookPages is to show in its last cell
ExpectedTotalAmount(page) ==
    CASE page = ExamplePage -> <<"$", "3", "0", "0", ".", "0", "0">>
      [] page = CountOnlyPage -> <<"$", "2", ",", "2", "0", "5", ".", "0", "0">>
      [] page = AmountOnlyPage -> <<"$", "2", "6", ",", "4", "6", "0", ".", "0", "0">>
      [] page = BothTotalsPage -> <<"$", "1", ",", "0", "0", "0", ".", "0", "0">>
      [] page = OddAmountsPage -> <<"$", "-", "1", ",", "2", "3", "4", ",", "5", "6", "7", ".", "5", "0">>
      [] page = EmptyNamePage -> <<"$", "0", ".", "0", "0">>

\* C3: the totals row of every sheet shows, in the second-to-last column, the
\* page's totals.count when present and the number of data rows otherwise, and
\* in the last column the page's totals.amount when present and the sum of the
\* row amounts otherwise, as currency; three rows of 100.00 and no totals show
\* 3 and "$300.00", and totals with a count only still show the summed amount.
C3_TotalsRow ==
    \A k \in DOMAIN sheets :
        LET page == pages[k]
            n == Len(sheets[k].headers)
            supplied == IF page.totals = Undefined THEN Undefined
                        ELSE page.totals.count
        IN  /\ lastRowOf(k).kind = "totals"
            /\ lastRowOf(k).cells[n - 1] =
                   (IF supplied.t = "number" THEN supplied
                    ELSE Num(100 * Len(page.rows)))
            /\ lastRowOf(k).cells[n] = Str(ExpectedTotalAmount(page))

C3_Witness ==
    \E k, j \in DOMAIN sheets :
        /\ pages[k] = ExamplePage
        /\ lastRowOf(k).cells[6] = Num(300)
        /\ lastRowOf(k).cells[7] = Str(<<"$", "3", "0", "0", ".", "0", "0">>)
        /\ pages[j] = CountOnlyPage
        /\ lastRowOf(j).cells[6] = Num(1200)
        /\ lastRowOf(j).cells[7] = Str(<<"$", "2", ",", "2", "0", "5", ".", "0", "0">>)

\* a line with at least 3 of the 8 keywords, in any case, as substrings
HasThreeKeywords(l) ==
    LET u == toUpperCase(l)
    IN  Cardinality({t \in {<<"S", "T", "U", "D", "E", "N", "T">>, <<"S", "I", "N">>, <<"G", "O", "V">>, <<"C", "E", "R", "T">>, <<"N", "A", "M", "E">>, <<"E", "O", "S">>,
                            <<"D", "A", "T", "E">>, <<"A", "M", "O", "U", "N", "T">>} : includes(u, t)}) >= 3

\* the 1-based positions of the header-like lines of clean
HeaderLike == {k \in 1..Len(clean) : HasThreeKeywords(clean[k])}

\* C4: the header index is the index of the first line with at least 3
\* keywords, min(4, lineCount) if there is none, and headerLines is the lines
\* strictly before that index, in order and unchanged.
C4_HeaderIndex ==
    pc # "idle" =>
        /\ LET hits == HeaderLike
           IN  IF hits # {}
               THEN /\ headerIdx + 1 \in hits
                    /\ \A k \in hits : headerIdx + 1 <= k
               ELSE headerIdx = (IF Len(clean) < 4 THEN Len(clean) ELSE 4)
        /\ pc = "done" =>
               /\ Len(result.headerLines) = headerIdx
               /\ \A k \in 1..headerIdx : result.headerLines[k] = clean[k]

C4_Witness ==
    /\ pc = "done"
    /\ headerIdx = 2
    /\ Cardinality(HeaderLike) = 2
    /\ result.headerLines[1] # result.headerLines[2]

\* a name without leading or trailing whitespace whose only whitespace is
\* single blanks between words
IsCleanName(nm) ==
    /\ nm # <<>>
    /\ nm[1] \notin Spaces
    /\ nm[Len(nm)] \notin Spaces
    /\ \A k \in 1..(Len(nm) - 1) :
           nm[k] \in Spaces => nm[k] = " " /\ nm[k + 1] \notin Spaces

\* C5, as stated: the line synthesized from any valid field set is parsed into
\* the same field values.
C5_RoundTrip == rowPc = "parsed" => parsed = fields

\* C5, amended: the line synthesized from a valid field set whose name has no
\* leading or trailing whitespace and no whitespace but single blanks between
\* words is parsed into the same field values, gov absent when it was absent.
C5_RoundTripCleanName ==
    (rowPc = "parsed" /\ IsCleanName(fields.name.s)) => parsed = fields

C5_Witness ==
    /\ rowPc = "parsed"
    /\ parsed = fields
    /\ fields.gov = Undefined
    /\ fields.name = Str(<<"O", "'", "N", "E", "I", "L", " ", "0", "1", "/", "0", "2", "/", "0", "3", " ", "$", "5", ".", "0", "0">>)

\* the rows the Row Parser yields for the lines a..b (1-based) of clean
rowsBetween(a, b) ==
    SelectSeq([k \in 1..(b - a + 1) |-> parseRow(clean[a + k - 1])],
              LAMBDA r : r.isRow)

\* the 1-based positions after the header line of the lines the Totals
\* Detector accepts
TotalsLike == {k \in (headerIdx + 2)..Len(clean) : parseTotals(clean[k]) # Null}

\* C6: the first line after the header line that the Totals Detector accepts
\* becomes the totals and ends the scan; the rows are those of the lines before
\* it, in the order of the lines, and while the scan runs no totals line has
\* been passed.
C6_TotalsEndScan ==
    /\ pc = "scan" =>
           /\ totals = Undefined
           /\ \A k \in TotalsLike : k > i
           /\ rows = rowsBetween(headerIdx + 2, i)
    /\ (pc \in {"return", "done"} /\ TotalsLike = {}) =>
           /\ totals = Undefined
           /\ rows = rowsBetween(headerIdx + 2, Len(clean))
    /\ (pc \in {"return", "done"} /\ TotalsLike # {}) =>
           /\ totals = parseTotals(clean[Minimum(TotalsLike)])
           /\ rows = rowsBetween(headerIdx + 2, Minimum(TotalsLike) - 1)
    /\ pc = "done" => result.rows = rows /\ result.totals = totals

C6_Witness ==
    /\ pc = "done"
    /\ totals # Undefined
    /\ Len(result.rows) = 2
    /\ result.rows[1] # result.rows[2]
    /\ i + 2 <= Len(clean)
    /\ parseRow(clean[i + 2]).isRow

\* C7: a data cell whose label contains AMOUNT, in any case, shows the amount
\* as currency when the row's raw value under the label is parseable as a
\* number, and the raw text itself when it is unparseable.
C7_AmountCell ==
    \A k \in DOMAIN sheets : \A j \in DOMAIN pages[k].rows :
        \A c \in DOMAIN sheets[k].headers :
            LET raw == rawOf(pages[k].rows[j], sheets[k].headers[c])
                cell == dataRowsOf(k)[j].cells[c]
                text == stripMoney(raw.s)
            IN  includes(toUpperCase(sheets[k].headers[c]), <<"A", "M", "O", "U", "N", "T">>) =>
                    /\ (raw.t = "number"
                        \/ (raw.t = "string" /\ text # <<>>
                              /\ Number(text).t = "number"))
                           => cell = Str(dollars(toNumber(raw)))
                    /\ (raw.t = "string" /\ text # <<>>
                          /\ Number(text).t = "notfinite")
                           => cell = Str(raw.s)

\* the characters of s that are legal in a sheet name, trimmed
legalPart(s) ==
    trim(SelectSeq(s, LAMBDA c : c \notin {"\\", "/", "*", "?", ":", "[", "]"}))

startsWith(s, prefix) ==
    Len(prefix) <= Len(s) /\ SubSeq(s, 1, Len(prefix)) = prefix

\* C8: the name sanitized into the sheet name of the page at 1-based position
\* k is its sheetName if it has one, else its first headerLines entry if there
\* is one, else "Page k"; a name that sanitizes to nothing gives "Page k", so
\* that the sheet name is never empty.
C8_IntendedName ==
    \A k \in DOMAIN sheets :
        LET page == pages[k]
            intended == IF page.sheetName.t = "string" THEN page.sheetName.s
                        ELSE IF page.headerLines # <<>> THEN page.headerLines[1]
                        ELSE <<"P", "a", "g", "e", " ">> \o digitsOf(k)
            base == IF legalPart(intended) # <<>> THEN legalPart(intended)
                    ELSE <<"P", "a", "g", "e", " ">> \o digitsOf(k)
        IN  /\ sheets[k].name # <<>>
            /\ startsWith(sheets[k].name, slice0(base, 27))
            /\ \/ sheets[k].name = slice0(base, 31)
               \/ \E j \in DOMAIN sheets : j < k /\ startsWith(sheets[j].name, slice0(base, 27))

C8_Witness ==
    /\ Len(sheets) = 3
    /\ pages[1] = CountOnlyPage /\ sheets[1].name = <<"S", "u", "m", "m", "a", "r", "y">>
    /\ pages[2] = AmountOnlyPage /\ sheets[2].name = <<"P", "a", "g", "e", " ", "2">>
    /\ pages[3] = EmptyNamePage /\ sheets[3].name = <<"P", "a", "g", "e", " ", "3">>

\* the rows of the page at position k are the data rows of its sheet, in order
DataInPageOrder(k) ==
    /\ Len(dataRowsOf(k)) = Len(pages[k].rows)
    /\ \A j \in DOMAIN pages[k].rows :
           dataRowsOf(k)[j].cells = dataCells(sheets[k].headers, pages[k].rows[j])

\* C9, as stated: the rows of a sheet are P preamble rows, one blank row if
\* P > 0, one header row, R data rows in page order and the totals row directly
\* after them.
C9_Layout ==
    \A k \in DOMAIN sheets :
        LET P == Len(pages[k].headerLines)
            R == Len(pages[k].rows)
        IN  /\ kindsOf(k) = repeated("preamble", P)
                              \o (IF P > 0 THEN <<"blank">> ELSE <<>>)
                              \o <<"header">> \o repeated("data", R)
                              \o <<"totals">>
            /\ DataInPageOrder(k)

\* C9, amended: the rows of a sheet are P preamble rows, one blank row if
\* P > 0, one header row, R data rows in page order, one blank row, and the
\* totals row: two rows below the last data row (below the header row when
\* R = 0).
C9_LayoutBlankBeforeTotals ==
    \A k \in DOMAIN sheets :
        LET P == Len(pages[k].headerLines)
            R == Len(pages[k].rows)
        IN  /\ kindsOf(k) = repeated("preamble", P)
                              \o (IF P > 0 THEN <<"blank">> ELSE <<>>)
                              \o <<"header">> \o repeated("data", R)
                              \o <<"blank", "totals">>
            /\ DataInPageOrder(k)

C9_Witness ==
    \E k, j \in DOMAIN sheets :
        /\ pages[k] = ExamplePage
        /\ kindsOf(k) = <<"preamble", "preamble", "blank", "header", "data",
                          "data", "data", "blank", "totals">>
        /\ pages[j] = AmountOnlyPage
        /\ kindsOf(j) = <<"header", "blank", "totals">>

\* C10: a line is tested as totals or row only at an index above the header
\* index; on a page without header-like line the lines at indices 0 to 4 yield
\* neither row nor totals, and with at most 4 lines the page has no rows, no
\* totals and all its lines in headerLines.
C10_LinesUpToHeaderSkipped ==
    /\ pc = "scan" => i > headerIdx
    /\ (pc # "idle" /\ HeaderLike = {}) =>
           /\ \A j \in DOMAIN rows :
                  \E k \in 6..Len(clean) : rows[j] = parseRow(clean[k])
           /\ Len(rows) <= Cardinality({k \in 6..Len(clean) :
                                            parseRow(clean[k]).isRow})
           /\ totals # Undefined =>
                  \E k \in 6..Len(clean) : totals = parseTotals(clean[k])
    /\ (pc = "done" /\ HeaderLike = {} /\ Len(clean) <= 4) =>
           /\ result.rows = <<>>
           /\ result.totals = Undefined
           /\ result.headerLines = clean

C10_Witness ==
    /\ pc = "done"
    /\ HeaderLike = {}
    /\ Len(clean) = 5
    /\ \A k \in 1..4 : parseRow(clean[k]).isRow
    /\ parseTotals(clean[5]) # Null
    /\ result.rows = <<>>
    /\ result.totals = Undefined

\* the line parseFromLines splits into columns: the line at the header index,
\* the empty line if there is none
HeaderLineOfPage == IF headerIdx < Len(clean) THEN clean[headerIdx + 1] ELSE <<>>

\* C11: every page whose header line holds no pipe character has exactly the 7
\* canonical labels as its columns, whatever labels the line holds, and the
\* columns of every page are at least 3 labels.
C11_CanonicalColumns ==
    pc = "done" =>
        /\ Len(result.columns) >= 3
        /\ (\A k \in DOMAIN HeaderLineOfPage : HeaderLineOfPage[k] # "|") =>
               result.columns = <<<<"S", "T", "U", "D", "E", "N", "T", " ", "N", "O">>, <<"S", "I", "N">>, <<"G", "O", "V">>, <<"C", "E", "R", "T", " ", "#">>,
                                  <<"A", "B", "B", "R", "E", "V", "I", "A", "T", "E", "D", " ", "N", "A", "M", "E">>, <<"E", "O", "S", " ", "D", "A", "T", "E">>, <<"A", "M", "O", "U", "N", "T">>>>

C11_Witness ==
    /\ pc = "done"
    /\ HeaderLineOfPage = <<"S", "I", "N", " ", "G", "o", "v", " ", "C", "e", "r", "t", " ", "N", "a", "m", "e">>
    /\ \E k \in DOMAIN lines : TAB \in Range(lines[k])
    /\ Len(result.columns) = 7
    /\ result.columns[1] = <<"S", "T", "U", "D", "E", "N", "T", " ", "N", "O">>
====
